---- MODULE Spec2Model ----
(***************************************************************************)
(* Model of src/bot.py: the MarkdownBot handlers start_command,            *)
(* help_command, handle_markdown and error_handler.                        *)
(*                                                                         *)
(* A text is a sequence of one-character strings (an emoji is one element, *)
(* written "U+xxxx", as it is one code point for Python's len()).          *)
(* The bot framework hands one update at a time to its handler; a handler  *)
(* invocation is a sequence of steps, one per library call or awaited      *)
(* reply.  Every reply call may raise (a transport error), and the two     *)
(* conversions applied to user text may raise.                             *)
(***************************************************************************)
EXTENDS Integers, Sequences, FiniteSets, TLC

VARIABLES
    whitelist,       \* self.whitelist
    whitelist0,      \* history: the allow-list as loaded at start-up
    pc,              \* position of the handler invocation in flight
    update,          \* the update being (or last) handled
    message_chunks,  \* handle_markdown: result of telegramify
    i,               \* handle_markdown: loop index (1-based; Python's i + 1)
    k,               \* handle_markdown: index into chunk.files (1-based)
    formatted_text,  \* handle_markdown: result of the fallback markdownify
    chunks,          \* handle_markdown: the fallback's manual slices
    e,               \* handle_markdown: exception caught by the outer except
    fallback_error,  \* handle_markdown: exception caught by the inner except
    escaped,         \* exception that left the handler invocation (context.error)
    sent,            \* history: reply calls issued by this invocation, in order
    calls,           \* history: conversion calls made by this invocation
    raised,          \* history: where exceptions were raised in this invocation
    log              \* history: logger records written for this invocation

vars == <<whitelist, whitelist0, pc, update, message_chunks, i, k, formatted_text,
          chunks, e, fallback_error, escaped, sent, calls, raised, log>>

(***************************************************************************)
(* Bounds                                                                  *)
(***************************************************************************)
MaxUser == 2
MaxChunks == 2
MaxPad == 1

(***************************************************************************)
(* Program constants                                                       *)
(***************************************************************************)
SliceLen == 4000

UserIds == 1..MaxUser

Min(a, b) == IF a < b THEN a ELSE b

(***************************************************************************)
(* Python string helpers                                                   *)
(***************************************************************************)
Whitespace == {" ", "\n", "\t"}

\* str.strip(): drop leading and trailing whitespace
Strip(s) ==
    LET keep == {n \in 1..Len(s) : s[n] \notin Whitespace}
    IN  IF keep = {} THEN <<>>
        ELSE LET lo == CHOOSE n \in keep : \A m \in keep : n <= m
                 hi == CHOOSE n \in keep : \A m \in keep : m <= n
             IN  SubSeq(s, lo, hi)

Digit == <<"0", "1", "2", "3", "4", "5", "6", "7", "8", "9">>

\* str(n) of a natural number, as an f-string formats it
RECURSIVE Str(_)
Str(n) == IF n < 10 THEN <<Digit[n + 1]>>
          ELSE Str(n \div 10) \o <<Digit[(n % 10) + 1]>>

\* s.replace(".", "\\."), by halves so that long texts need little depth
RECURSIVE ReplaceDot(_)
ReplaceDot(s) ==
    IF Len(s) = 0 THEN <<>>
    ELSE IF Len(s) = 1 THEN (IF s[1] = "." THEN <<"\\", ".">> ELSE s)
    ELSE LET h == Len(s) \div 2
         IN  ReplaceDot(SubSeq(s, 1, h)) \o ReplaceDot(SubSeq(s, h + 1, Len(s)))

\* s[a : a + n] for a 0-based start a
Slice(s, a, n) == SubSeq(s, a + 1, Min(a + n, Len(s)))

\* dict.get(key, default)
Get(d, key, default) == IF key \in DOMAIN d THEN d[key] ELSE default

(***************************************************************************)
(* The formatting library (telegramify_markdown), as the handlers use it   *)
(***************************************************************************)
\* Characters the conversion escapes with a backslash; markup characters
\* such as "*" and "#" are the library's to interpret and pass through.
Reserved == {".", "!", "-", "(", ")"}

\* telegramify_markdown.markdownify(text): the text in MarkdownV2, every
\* reserved character escaped (by halves, as ReplaceDot)
RECURSIVE Markdownify(_)
Markdownify(s) ==
    IF Len(s) = 0 THEN <<>>
    ELSE IF Len(s) = 1 THEN (IF s[1] \in Reserved THEN <<"\\", s[1]>> ELSE s)
    ELSE LET h == Len(s) \div 2
         IN  Markdownify(SubSeq(s, 1, h)) \o Markdownify(SubSeq(s, h + 1, Len(s)))

\* The texts of the exceptions the environment raises
LibError == <<"b", "a", "d", ".", "m", "d">>
NetError == <<"T", "i", "m", "e", "d", ".", "o", "u", "t">>
NoError == <<>>

\* file_info dicts of a chunk: "file" is always there, "type" and "caption"
\* may be missing
FileInfo(j, n, type) ==
    [file |-> <<"f", Digit[j + 1], Digit[n + 1]>>, type |-> type, caption |-> "fig"]
BareFileInfo(j, n) == [file |-> <<"f", Digit[j + 1], Digit[n + 1]>>]

\* What chunk j of a telegramify result can hold: a text, blank or not, and
\* a list of files
ChunkTexts == {<<"h", "i", "\\", "!">>, <<" ", "\n">>}
ChunkFiles(j) == {<<>>,
                  <<FileInfo(j, 1, "video"), FileInfo(j, 2, "image")>>,
                  <<BareFileInfo(j, 1)>>}
Chunk(j) == {[text |-> t, files |-> f] : t \in ChunkTexts, f \in ChunkFiles(j)}

\* The lists telegramify may return: 1..MaxChunks chunks
TelegramifyResults ==
    UNION {{r \in [1..n -> UNION {Chunk(j) : j \in 1..n}] :
               \A j \in 1..n : r[j] \in Chunk(j)} : n \in 1..MaxChunks}

\* A few results, for runs whose subject is the fallback
SampleResults ==
    {<<[text |-> <<"h", "i", "\\", "!">>, files |-> <<FileInfo(1, 1, "image")>>]>>}

(***************************************************************************)
(* The fixed texts of the handlers (abbreviated; the shape is the source's:*)
(* the welcome text is markdown with surrounding whitespace, the help text *)
(* is escaped by hand)                                                     *)
(***************************************************************************)
welcome_message ==
    <<"\n", "U+1F916", " ", "*", "*", "B", "o", "t", "*", "*", "\n",
      "S", "e", "n", "d", " ", "m", "e", "!", "\n", "(", "#", ")", ".", "\n", " ">>

help_text ==
    <<"\n", "U+1F4D6", " ", "*", "*", "H", "o", "w", "*", "*", "\n",
      "1", "\\", ".", " ", "S", "e", "n", "d", "\n", "\\", "(", "\\", "#", "\\", ")",
      "\n", " ">>

\* the f-string "U+1F4C4 *Part {i+1}/{len}*" and two newlines; part is Python's i + 1
chunk_header(part, total) ==
    <<"U+1F4C4", " ", "*", "P", "a", "r", "t", " ">> \o Str(part) \o <<"/">>
        \o Str(total) \o <<"*", "\n", "\n">>

\* the f-string of the error reply, ending in the error text between
\* backquotes (written "BQ")
error_msg(error_text) ==
    <<"U+274C", " ", "S", "o", "r", "r", "y", "\\", ".", " ",
      "E", "r", "r", "o", "r", ":", " ", "BQ">> \o error_text \o <<"BQ">>

\* faulty variant: slices one character short of the step
ManualSplit_Short(t) ==
    [n \in 1..((Len(t) + SliceLen - 1) \div SliceLen) |->
        Slice(t, (n - 1) * SliceLen, SliceLen - 1)]

\* the manual split of the fallback: [t[a : a + 4000] for a in range(0, len(t), 4000)]
ManualSplit(t) ==
    [n \in 1..((Len(t) + SliceLen - 1) \div SliceLen) |->
        Slice(t, (n - 1) * SliceLen, SliceLen)]

(***************************************************************************)
(* Inbound texts.  Telegram delivers no empty text message.                *)
(***************************************************************************)
Repeat(pattern, n) == [m \in 1..n |-> pattern[((m - 1) % Len(pattern)) + 1]]

ShortTexts == {<<"h", "i", "!">>, <<"#", " ", "a", ".", "b">>}

\* Texts whose conversion is about the manual split's length cap
LongTexts ==
    {Repeat(<<"a">>, SliceLen + d) : d \in 0..MaxPad}
        \cup {Repeat(<<".">>, SliceLen + d) : d \in 0..MaxPad}
        \cup {Repeat(<<"a", ".", "b">>, SliceLen - 1), <<"h", "i", "!">>}

(***************************************************************************)
(* History records                                                         *)
(***************************************************************************)
Reply(tier, method, body, caption, raises) ==
    [tier |-> tier, method |-> method, body |-> body, caption |-> caption,
     ok |-> ~raises]

Call(fn, arg, out, raises) == [fn |-> fn, arg |-> arg, out |-> out, ok |-> ~raises]

Raise(tier, at, exc) == [tier |-> tier, at |-> at, exc |-> exc]

LogRecord(by, level, what, exc) == [by |-> by, level |-> level, what |-> what, exc |-> exc]

NoUpdate == [kind |-> "none", user_id |-> 0, text |-> <<>>]

\* The locals of a handler invocation, before it has run
FreshLocals ==
    /\ message_chunks' = <<>>
    /\ i' = 0
    /\ k' = 0
    /\ formatted_text' = <<>>
    /\ chunks' = <<>>
    /\ e' = NoError
    /\ fallback_error' = NoError

Init ==
    /\ whitelist \in (SUBSET UserIds) \ {{}}
    /\ whitelist0 = whitelist
    /\ pc = "idle"
    /\ update = NoUpdate
    /\ message_chunks = <<>>
    /\ i = 0
    /\ k = 0
    /\ formatted_text = <<>>
    /\ chunks = <<>>
    /\ e = NoError
    /\ fallback_error = NoError
    /\ escaped = NoError
    /\ sent = <<>>
    /\ calls = <<>>
    /\ raised = <<>>
    /\ log = <<>>

(***************************************************************************)
(* The access guard                                                        *)
(***************************************************************************)
\* faulty variant: any known user passes
IsWhitelisted_Any(user_id) == user_id \in UserIds

IsWhitelisted(user_id) == user_id \in whitelist

(***************************************************************************)
(* start_command                                                           *)
(***************************************************************************)
\* faulty variant: the welcome text is sent without conversion
StartReplyText_Raw == Strip(welcome_message)

\* the text start_command replies with (the conversion of this fixed text
\* does not raise)
StartReplyText == Markdownify(Strip(welcome_message))

start_command ==
    /\ pc = "idle"
    /\ \E user_id \in UserIds, raises \in BOOLEAN :
        /\ update' = [kind |-> "start", user_id |-> user_id, text |-> <<"/start">>]
        /\ FreshLocals
        /\ IF ~IsWhitelisted(user_id)
           THEN /\ log' = <<LogRecord("start_command", "info", "unauthorized", NoError)>>
                /\ calls' = <<>>
                /\ sent' = <<>>
                /\ raised' = <<>>
                /\ escaped' = NoError
                /\ pc' = "idle"
           ELSE /\ log' = <<>>
                /\ calls' = <<Call("markdownify", Strip(welcome_message),
                                   Markdownify(Strip(welcome_message)), FALSE)>>
                /\ sent' = <<Reply("start", "reply_text", StartReplyText, "", raises)>>
                /\ raised' = IF raises THEN <<Raise("start", "reply_text", NetError)>> ELSE <<>>
                /\ escaped' = IF raises THEN NetError ELSE NoError
                /\ pc' = IF raises THEN "error_handler" ELSE "idle"
    /\ UNCHANGED <<whitelist, whitelist0>>

(***************************************************************************)
(* help_command                                                            *)
(***************************************************************************)
\* faulty variant: the help text is stripped as the welcome text is
HelpReplyText_Stripped == Strip(help_text)

\* the text help_command replies with
HelpReplyText == help_text

help_command ==
    /\ pc = "idle"
    /\ \E user_id \in UserIds, raises \in BOOLEAN :
        /\ update' = [kind |-> "help", user_id |-> user_id, text |-> <<"/help">>]
        /\ FreshLocals
        /\ log' = <<>>
        /\ calls' = <<>>
        /\ IF ~IsWhitelisted(user_id)
           THEN /\ sent' = <<>>
                /\ raised' = <<>>
                /\ escaped' = NoError
                /\ pc' = "idle"
           ELSE /\ sent' = <<Reply("help", "reply_text", HelpReplyText, "", raises)>>
                /\ raised' = IF raises THEN <<Raise("help", "reply_text", NetError)>> ELSE <<>>
                /\ escaped' = IF raises THEN NetError ELSE NoError
                /\ pc' = IF raises THEN "error_handler" ELSE "idle"
    /\ UNCHANGED <<whitelist, whitelist0>>

(***************************************************************************)
(* handle_markdown, one step per library call or awaited reply             *)
(***************************************************************************)
\* faulty variant: the outer except goes straight to the error reply
OuterExcept_NoFallback(at, exc) ==
    /\ e' = exc
    /\ raised' = Append(raised, Raise("primary", at, exc))
    /\ log' = Append(log, LogRecord("handle_markdown", "error", "Error formatting message", exc))
    /\ pc' = "error_reply"
    /\ UNCHANGED <<fallback_error, escaped>>

\* the outer "except Exception as e": log, then enter the fallback
OuterExcept(at, exc) ==
    /\ e' = exc
    /\ raised' = Append(raised, Raise("primary", at, exc))
    /\ log' = log \o <<LogRecord("handle_markdown", "error", "Error formatting message", exc),
                       LogRecord("handle_markdown", "info", "Attempting fallback", NoError)>>
    /\ pc' = "markdownify"
    /\ UNCHANGED <<fallback_error, escaped>>

\* faulty variant: no inner except, the fallback's exception leaves the handler
InnerExcept_Uncaught(at, exc) ==
    /\ escaped' = exc
    /\ raised' = Append(raised, Raise("fallback", at, exc))
    /\ pc' = "error_handler"
    /\ UNCHANGED <<e, fallback_error, log>>

\* the inner "except Exception as fallback_error": log, then the error reply
InnerExcept(at, exc) ==
    /\ fallback_error' = exc
    /\ raised' = Append(raised, Raise("fallback", at, exc))
    /\ log' = Append(log, LogRecord("handle_markdown", "error", "Fallback also failed", exc))
    /\ pc' = "error_reply"
    /\ UNCHANGED <<e, escaped>>

\* the access check and the read of the message text
handle_markdown(texts) ==
    /\ pc = "idle"
    /\ \E user_id \in UserIds, text \in texts :
        /\ update' = [kind |-> "text", user_id |-> user_id, text |-> text]
        /\ IF ~IsWhitelisted(user_id)
           THEN /\ log' = <<LogRecord("handle_markdown", "info", "unauthorized", NoError)>>
                /\ pc' = "idle"
           ELSE /\ log' = <<>>
                /\ pc' = "telegramify"
    /\ FreshLocals
    /\ escaped' = NoError
    /\ sent' = <<>>
    /\ calls' = <<>>
    /\ raised' = <<>>
    /\ UNCHANGED <<whitelist, whitelist0>>

\* message_chunks = telegramify_markdown.telegramify(markdown_text, ...)
telegramify(results) ==
    /\ pc = "telegramify"
    /\ \/ \E r \in results :
            /\ message_chunks' = r
            /\ i' = 1
            /\ calls' = Append(calls, Call("telegramify", update.text, r, FALSE))
            /\ pc' = "chunk_text"
            /\ UNCHANGED <<e, fallback_error, escaped, raised, log>>
       \/ /\ calls' = Append(calls, Call("telegramify", update.text, <<>>, TRUE))
          /\ OuterExcept("telegramify", LibError)
          /\ UNCHANGED <<message_chunks, i>>
    /\ UNCHANGED <<whitelist, whitelist0, update, k, formatted_text, chunks, sent>>

\* the text sent for chunk n (n is Python's i + 1)
final_text(n) ==
    IF Len(message_chunks) > 1
    THEN chunk_header(n, Len(message_chunks)) \o message_chunks[n].text
    ELSE message_chunks[n].text

\* faulty variant: blank chunks are sent too
HasText_Always(chunk) == Len(chunk.text) >= 0

\* "if chunk.text.strip():"
HasText(chunk) == Strip(chunk.text) # <<>>

\* the text of chunk i, when it is not blank
send_chunk_text ==
    /\ pc = "chunk_text"
    /\ IF HasText(message_chunks[i])
       THEN \E raises \in BOOLEAN :
            /\ sent' = Append(sent, Reply("primary", "reply_text", final_text(i), "", raises))
            /\ IF raises
               THEN /\ OuterExcept("reply_text", NetError)
                    /\ UNCHANGED k
               ELSE /\ pc' = "chunk_files"
                    /\ k' = 1
                    /\ UNCHANGED <<e, fallback_error, escaped, raised, log>>
       ELSE /\ pc' = "chunk_files"
            /\ k' = 1
            /\ UNCHANGED <<sent, e, fallback_error, escaped, raised, log>>
    /\ UNCHANGED <<whitelist, whitelist0, update, message_chunks, i, formatted_text,
                   chunks, calls>>

\* faulty variant: a file_info without a type counts as an image
FileMethod_DefaultImage(file_info) ==
    IF Get(file_info, "type", "image") = "image" THEN "reply_photo" ELSE "reply_document"

\* reply_photo for an "image", reply_document for anything else
FileMethod(file_info) ==
    IF Get(file_info, "type", "None") = "image" THEN "reply_photo" ELSE "reply_document"

\* file k of chunk i
send_chunk_file ==
    /\ pc = "chunk_files"
    /\ k <= Len(message_chunks[i].files)
    /\ LET file_info == message_chunks[i].files[k]
       IN  \E raises \in BOOLEAN :
            /\ sent' = Append(sent, Reply("primary", FileMethod(file_info), file_info["file"],
                                          Get(file_info, "caption", ""), raises))
            /\ IF raises
               THEN /\ OuterExcept(FileMethod(file_info), NetError)
                    /\ UNCHANGED k
               ELSE /\ k' = k + 1
                    /\ UNCHANGED <<pc, e, fallback_error, escaped, raised, log>>
    /\ UNCHANGED <<whitelist, whitelist0, update, message_chunks, i, formatted_text,
                   chunks, calls>>

\* the files of chunk i are done: the next chunk, or the end of the primary path
next_chunk ==
    /\ pc = "chunk_files"
    /\ k > Len(message_chunks[i].files)
    /\ IF i < Len(message_chunks)
       THEN /\ i' = i + 1
            /\ pc' = "chunk_text"
            /\ UNCHANGED log
       ELSE /\ log' = Append(log, LogRecord("handle_markdown", "info", "Successfully formatted", NoError))
            /\ pc' = "idle"
            /\ UNCHANGED i
    /\ UNCHANGED <<whitelist, whitelist0, update, message_chunks, k, formatted_text,
                   chunks, e, fallback_error, escaped, sent, calls, raised>>

\* formatted_text = telegramify_markdown.markdownify(markdown_text, ...), and the
\* manual split when it is longer than the cap
fallback_markdownify ==
    /\ pc = "markdownify"
    /\ \/ LET out == Markdownify(update.text)
          IN  /\ formatted_text' = out
              /\ calls' = Append(calls, Call("markdownify", update.text, out, FALSE))
              /\ chunks' = IF Len(out) > SliceLen THEN ManualSplit(out) ELSE <<>>
              /\ i' = 1
              /\ pc' = "fallback_send"
              /\ UNCHANGED <<e, fallback_error, escaped, raised, log>>
       \/ /\ calls' = Append(calls, Call("markdownify", update.text, <<>>, TRUE))
          /\ InnerExcept("markdownify", LibError)
          /\ UNCHANGED <<formatted_text, chunks, i>>
    /\ UNCHANGED <<whitelist, whitelist0, update, message_chunks, k, sent>>

\* the text of the fallback's reply number n
fallback_text(n) ==
    IF Len(formatted_text) > SliceLen
    THEN (IF Len(chunks) > 1 THEN chunk_header(n, Len(chunks)) ELSE <<>>) \o chunks[n]
    ELSE formatted_text

\* one reply of the fallback
fallback_send ==
    /\ pc = "fallback_send"
    /\ \E raises \in BOOLEAN :
        /\ sent' = Append(sent, Reply("fallback", "reply_text", fallback_text(i), "", raises))
        /\ IF raises
           THEN /\ InnerExcept("reply_text", NetError)
                /\ UNCHANGED i
           ELSE /\ IF Len(formatted_text) > SliceLen /\ i < Len(chunks)
                   THEN /\ i' = i + 1
                        /\ UNCHANGED <<pc, log>>
                   ELSE /\ log' = Append(log, LogRecord("handle_markdown", "info", "Fallback successful", NoError))
                        /\ pc' = "idle"
                        /\ UNCHANGED i
                /\ UNCHANGED <<e, fallback_error, escaped, raised>>
    /\ UNCHANGED <<whitelist, whitelist0, update, message_chunks, k, formatted_text,
                   chunks, calls>>

\* error_text = str(e).replace(".", "\\.")
error_text == ReplaceDot(e)

\* the error reply; an exception it raises is caught by nothing in the handler
error_reply ==
    /\ pc = "error_reply"
    /\ \E raises \in BOOLEAN :
        /\ sent' = Append(sent, Reply("error", "reply_text", error_msg(error_text), "", raises))
        /\ IF raises
           THEN /\ raised' = Append(raised, Raise("error", "reply_text", NetError))
                /\ escaped' = NetError
                /\ pc' = "error_handler"
           ELSE /\ pc' = "idle"
                /\ UNCHANGED <<raised, escaped>>
    /\ UNCHANGED <<whitelist, whitelist0, update, message_chunks, i, k, formatted_text,
                   chunks, e, fallback_error, calls, log>>

(***************************************************************************)
(* error_handler: the framework calls it with the exception that left a    *)
(* handler (run registers it before polling starts)                        *)
(***************************************************************************)
error_handler ==
    /\ pc = "error_handler"
    /\ log' = Append(log, LogRecord("error_handler", "error", "caused error", escaped))
    /\ pc' = "idle"
    /\ UNCHANGED <<whitelist, whitelist0, update, message_chunks, i, k, formatted_text,
                   chunks, e, fallback_error, escaped, sent, calls, raised>>

(***************************************************************************)
(* Specifications                                                          *)
(***************************************************************************)
Next ==
    \/ start_command
    \/ help_command
    \/ handle_markdown(ShortTexts)
    \/ telegramify(TelegramifyResults)
    \/ send_chunk_text
    \/ send_chunk_file
    \/ next_chunk
    \/ fallback_markdownify
    \/ fallback_send
    \/ error_reply
    \/ error_handler

Spec == Init /\ [][Next]_vars

\* The same program on texts long enough for the manual split
NextLongText ==
    \/ start_command
    \/ help_command
    \/ handle_markdown(LongTexts)
    \/ telegramify(SampleResults)
    \/ send_chunk_text
    \/ send_chunk_file
    \/ next_chunk
    \/ fallback_markdownify
    \/ fallback_send
    \/ error_reply
    \/ error_handler

SpecLongText == Init /\ [][NextLongText]_vars

(***************************************************************************)
(* Vocabulary of the properties                                            *)
(***************************************************************************)
Allowed == update.user_id \in whitelist0

\* the handler invocation is over (an exception that left it may still be
\* on its way to error_handler)
Returned == pc \in {"idle", "error_handler"}

TierReplies(t) == SelectSeq(sent, LAMBDA r : r.tier = t)

TextReplies == SelectSeq(sent, LAMBDA r : r.method = "reply_text")

DeliveredTexts == SelectSeq(sent, LAMBDA r : r.method = "reply_text" /\ r.ok)

CallsOf(fn) == SelectSeq(calls, LAMBDA c : c.fn = fn)

RaisedIn(t) == SelectSeq(raised, LAMBDA r : r.tier = t)

PrimaryRaised == Len(RaisedIn("primary")) > 0

FallbackRaised == Len(RaisedIn("fallback")) > 0

\* handle_markdown ran its primary path to the end without an exception
PrimaryCompleted ==
    /\ update.kind = "text"
    /\ Allowed
    /\ pc = "idle"
    /\ raised = <<>>

\* handle_markdown ran its fallback path to the end without an exception
FallbackCompleted ==
    /\ update.kind = "text"
    /\ pc = "idle"
    /\ PrimaryRaised
    /\ ~FallbackRaised

Bodies(replies) == [n \in 1..Len(replies) |-> replies[n].body]

RECURSIVE Concat(_)
Concat(seqs) == IF seqs = <<>> THEN <<>> ELSE Head(seqs) \o Concat(Tail(seqs))

IsPrefix(s, t) == Len(s) <= Len(t) /\ \A n \in 1..Len(s) : s[n] = t[n]

\* "Part i/N" as it stands in a header, after the emoji, a space and a star
PartLabel(part, total) == <<"P", "a", "r", "t", " ">> \o Str(part) \o <<"/">> \o Str(total)

\* body is a header "Part part/total" followed by text
HeaderThen(body, part, total, text) ==
    LET hl == Len(body) - Len(text)
        label == PartLabel(part, total)
    IN  /\ hl >= 3 + Len(label)
        /\ SubSeq(body, 4, 3 + Len(label)) = label
        /\ SubSeq(body, hl + 1, Len(body)) = text

\* the n-th smallest member of a set of numbers
Nth(S, n) == CHOOSE x \in S : Cardinality({y \in S : y <= x}) = n

\* the fixed-size pieces of a text, as a length cap of SliceLen asks for them
PieceCount(t) == (Len(t) + SliceLen - 1) \div SliceLen
Piece(t, n) == [m \in 1..Min(SliceLen, Len(t) - (n - 1) * SliceLen) |-> t[(n - 1) * SliceLen + m]]

(***************************************************************************)
(* C1: a sender who is not in the allow-list gets no reply of any kind and *)
(* causes no conversion, whichever of /start, /help and plain text was     *)
(* sent, and the allow-list stays the one loaded at start-up.              *)
(***************************************************************************)
C1_UnlistedSilent ==
    /\ whitelist = whitelist0
    /\ update.user_id \notin whitelist0 => sent = <<>> /\ calls = <<>>

C1_Witness ==
    /\ update.kind = "text"
    /\ update.user_id \notin whitelist
    /\ pc = "idle"
    /\ Len(log) = 1

(***************************************************************************)
(* C2 (as claimed): when the primary path raised and the fallback ran to   *)
(* its end, the fallback conversion was invoked and the text replies       *)
(* delivered for the message are exactly the fallback conversion's output, *)
(* whole or in pieces; nothing of the primary path was delivered.          *)
(***************************************************************************)
C2_OnlyFallbackDelivered ==
    FallbackCompleted =>
        /\ Len(CallsOf("markdownify")) = 1
        /\ LET out == CallsOf("markdownify")[1].out
               got == DeliveredTexts
           IN  /\ Len(got) = (IF Len(out) <= SliceLen THEN 1 ELSE PieceCount(out))
               /\ \A n \in 1..Len(got) :
                    IF Len(out) <= SliceLen THEN got[n].body = out
                    ELSE HeaderThen(got[n].body, n, PieceCount(out), Piece(out, n))

(***************************************************************************)
(* C3 (as claimed): when both the primary path and the fallback path       *)
(* raised, exactly one reply is sent for the message, the error message    *)
(* holding the escaped text of the exception raised in the primary path:   *)
(* the error reply is issued once and no other reply reached the sender.   *)
(***************************************************************************)
C3_OneErrorReply ==
    (update.kind = "text" /\ Returned /\ PrimaryRaised /\ FallbackRaised) =>
        /\ Len(TierReplies("error")) = 1
        /\ \A n \in 1..Len(sent) :
             sent[n].ok => /\ sent[n].tier = "error"
                           /\ sent[n].body = error_msg(ReplaceDot(RaisedIn("primary")[1].exc))

(***************************************************************************)
(* C4 (amended): when the primary path ends without an exception, one text *)
(* reply is sent per chunk whose text is not blank, in chunk order; with a *)
(* single chunk the reply is the chunk's text with no part header, with    *)
(* N > 1 chunks the reply for chunk i is the header "Part i/N" followed by *)
(* the chunk's text.  A blank chunk gets no text reply.                    *)
(***************************************************************************)
C4_OneReplyPerTextChunk ==
    PrimaryCompleted =>
        LET N == Len(message_chunks)
            with == {n \in 1..N : Strip(message_chunks[n].text) # <<>>}
            got == TextReplies
        IN  /\ Len(got) = Cardinality(with)
            /\ \A m \in 1..Len(got) :
                 LET n == Nth(with, m)
                 IN  IF N = 1 THEN got[m].body = message_chunks[n].text
                     ELSE HeaderThen(got[m].body, n, N, message_chunks[n].text)

C4_Witness ==
    /\ PrimaryCompleted
    /\ Len(message_chunks) = 2
    /\ Strip(message_chunks[1].text) = <<>>
    /\ Len(TextReplies) = 1

\* C4 (as claimed): a single chunk gives exactly one text reply without a
\* header, N > 1 chunks give N text replies, the i-th with the header "Part i/N".
C4_OneReplyPerChunk ==
    PrimaryCompleted =>
        LET N == Len(message_chunks)
            got == TextReplies
        IN  /\ Len(got) = N
            /\ \A n \in 1..Len(got) :
                 IF N = 1 THEN got[n].body = message_chunks[n].text
                 ELSE HeaderThen(got[n].body, n, N, message_chunks[n].text)

(***************************************************************************)
(* C5 (amended): an exception raised in the primary or the fallback path   *)
(* of handle_markdown is caught inside the handler and logged there.  An   *)
(* exception raised by the reply of start_command or help_command, or by   *)
(* the error reply of handle_markdown, leaves the handler invocation; it   *)
(* is then logged by error_handler.                                        *)
(***************************************************************************)
C5_CaughtOrHandedOver ==
    /\ \A n \in 1..Len(raised) :
         raised[n].tier \in {"primary", "fallback"} =>
            \E m \in 1..Len(log) : /\ log[m].by = "handle_markdown"
                                   /\ log[m].level = "error"
                                   /\ log[m].exc = raised[n].exc
    /\ escaped # NoError <=>
         (raised # <<>> /\ raised[Len(raised)].tier \in {"start", "help", "error"})
    /\ escaped # NoError => pc \in {"idle", "error_handler"}
    /\ (escaped # NoError /\ pc = "idle") =>
         /\ log # <<>>
         /\ log[Len(log)] = LogRecord("error_handler", "error", "caused error", escaped)
    /\ pc = "error_handler" => escaped # NoError

C5_Witness ==
    /\ update.kind = "text"
    /\ pc = "idle"
    /\ escaped # NoError
    /\ Len(raised) = 3

\* C5 (as claimed): no exception leaves a handler invocation.
C5_NothingLeavesHandler == escaped = NoError

(***************************************************************************)
(* C6: a /start from a sender in the allow-list is answered with exactly   *)
(* one reply, the welcome text (stripped) converted to MarkdownV2.         *)
(***************************************************************************)
C6_StartOneConvertedReply ==
    (update.kind = "start" /\ Allowed) =>
        /\ Len(sent) = 1
        /\ sent[1].method = "reply_text"
        /\ sent[1].body = Markdownify(Strip(welcome_message))

C6_Witness ==
    /\ update.kind = "start"
    /\ update.user_id \in whitelist
    /\ pc = "idle"
    /\ Len(sent) = 1
    /\ sent[1].ok
    /\ sent[1].body # Strip(welcome_message)

(***************************************************************************)
(* C7 (amended): the reply to /start is the output of a conversion call    *)
(* made on the welcome text in the same invocation; the reply to /help is  *)
(* the help text as written (escaped by hand), with no conversion call.    *)
(***************************************************************************)
C7_StartConvertedHelpVerbatim ==
    /\ (update.kind = "start" /\ Allowed) =>
          /\ Len(calls) = 1
          /\ calls[1].fn = "markdownify"
          /\ calls[1].arg = Strip(welcome_message)
          /\ Len(sent) = 1
          /\ sent[1].body = calls[1].out
    /\ (update.kind = "help" /\ Allowed) =>
          /\ calls = <<>>
          /\ Len(sent) = 1
          /\ sent[1].body = help_text

C7_Witness ==
    /\ update.kind = "help"
    /\ update.user_id \in whitelist
    /\ pc = "idle"
    /\ Len(sent) = 1
    /\ sent[1].ok

\* C7 (as claimed): the reply to /start and the reply to /help are each the
\* output of a conversion call made on the command's text in the same invocation.
C7_BothConverted ==
    (update.kind \in {"start", "help"} /\ Allowed) =>
        \E n \in 1..Len(calls) :
            /\ calls[n].fn = "markdownify"
            /\ calls[n].arg \in {welcome_message, Strip(welcome_message),
                                 help_text, Strip(help_text)}
            /\ \A m \in 1..Len(sent) : sent[m].body = calls[n].out

(***************************************************************************)
(* C8: on the fallback path, a converted text of length L <= 4000 goes out *)
(* as one reply equal to it, with no header; one of length L > 4000 goes   *)
(* out as ceil(L / 4000) >= 2 replies in increasing order, the i-th being  *)
(* the header "Part i/N" followed by a piece of 1..4000 characters, and    *)
(* the pieces in sending order make up the converted text.  The replies    *)
(* issued so far are at every moment the first of these.                   *)
(***************************************************************************)
C8_FallbackPieces ==
    (update.kind = "text" /\ CallsOf("markdownify") # <<>> /\ CallsOf("markdownify")[1].ok) =>
        LET conv == CallsOf("markdownify")[1].out
            L == Len(conv)
            N == PieceCount(conv)
            fb == TierReplies("fallback")
            \* what follows the header: an emoji, a space, a star, the label, a
            \* star and two newlines
            rest(n) == SubSeq(fb[n].body, Len(PartLabel(n, N)) + 7, Len(fb[n].body))
        IN  /\ Len(fb) <= (IF L <= SliceLen THEN 1 ELSE N)
            /\ \A n \in 1..Len(fb) :
                 IF L <= SliceLen THEN fb[n].body = conv
                 ELSE /\ HeaderThen(fb[n].body, n, N, Piece(conv, n))
                      /\ Len(rest(n)) \in 1..SliceLen
            /\ FallbackCompleted =>
                 /\ Len(fb) = (IF L <= SliceLen THEN 1 ELSE N)
                 /\ L > SliceLen =>
                      /\ N >= 2
                      /\ N * SliceLen >= L
                      /\ (N - 1) * SliceLen < L
                      /\ Concat([n \in 1..N |-> rest(n)]) = conv

C8_Witness ==
    /\ FallbackCompleted
    /\ Len(formatted_text) > 2 * SliceLen
    /\ Len(TierReplies("fallback")) = 3

(***************************************************************************)
(* C9: on the primary path the replies go out in chunk order: the text of  *)
(* a chunk (when not blank), then its attachments in list order, then the  *)
(* next chunk; an attachment is sent as a photo exactly when its type tag  *)
(* is "image" and as a document otherwise.                                 *)
(***************************************************************************)
ChunkPlan(n) ==
    LET c == message_chunks[n]
    IN  (IF Strip(c.text) # <<>> THEN <<[method |-> "reply_text", chunk |-> n, body |-> c.text]>>
         ELSE <<>>)
        \o [m \in 1..Len(c.files) |->
              [method |-> IF "type" \in DOMAIN c.files[m] /\ c.files[m]["type"] = "image"
                          THEN "reply_photo" ELSE "reply_document",
               chunk |-> n,
               body |-> c.files[m]["file"]]]

PrimaryPlan == Concat([n \in 1..Len(message_chunks) |-> ChunkPlan(n)])

Matches(reply, planned) ==
    /\ reply.method = planned.method
    /\ IF planned.method # "reply_text" THEN reply.body = planned.body
       ELSE IF Len(message_chunks) = 1 THEN reply.body = planned.body
       ELSE HeaderThen(reply.body, planned.chunk, Len(message_chunks), planned.body)

C9_PrimaryInChunkOrder ==
    LET got == TierReplies("primary")
        plan == PrimaryPlan
    IN  /\ Len(got) <= Len(plan)
        /\ \A n \in 1..Len(got) : Matches(got[n], plan[n])
        /\ PrimaryCompleted => Len(got) = Len(plan)

C9_Witness ==
    /\ PrimaryCompleted
    /\ Len(message_chunks) = 2
    /\ Len(TierReplies("primary")) = 5
    /\ \E n \in 1..Len(sent) : sent[n].method = "reply_photo"
    /\ \E n \in 1..Len(sent) : sent[n].method = "reply_document" /\ sent[n].caption = ""

(***************************************************************************)
(* C10: within one handle_markdown invocation the tiers are entered in the *)
(* order primary, fallback, error reply, each at most once; the fallback   *)
(* conversion is invoked if and only if the primary path raised, the error *)
(* reply is sent if and only if the fallback path raised (after the        *)
(* primary path did), and a primary path that ends without an exception is *)
(* followed by neither.                                                    *)
(***************************************************************************)
Rank(tier) == CASE tier = "primary" -> 1 [] tier = "fallback" -> 2 [] OTHER -> 3

C10_TiersInOrder ==
    update.kind = "text" =>
        /\ Len(CallsOf("telegramify")) <= 1
        /\ Len(CallsOf("markdownify")) <= 1
        /\ Len(TierReplies("error")) <= 1
        /\ Len(RaisedIn("primary")) <= 1
        /\ Len(RaisedIn("fallback")) <= 1
        /\ \A m, n \in 1..Len(sent) : m < n => Rank(sent[m].tier) <= Rank(sent[n].tier)
        /\ \A m, n \in 1..Len(sent) :
             (m < n /\ ~sent[m].ok) => Rank(sent[m].tier) < Rank(sent[n].tier)
        /\ CallsOf("markdownify") # <<>> => PrimaryRaised
        /\ TierReplies("fallback") # <<>> =>
             (CallsOf("markdownify") # <<>> /\ CallsOf("markdownify")[1].ok)
        /\ TierReplies("error") # <<>> => (PrimaryRaised /\ FallbackRaised)
        /\ Returned =>
             /\ PrimaryRaised <=> CallsOf("markdownify") # <<>>
             /\ FallbackRaised <=> TierReplies("error") # <<>>
        /\ PrimaryCompleted =>
             (CallsOf("markdownify") = <<>> /\ TierReplies("error") = <<>>)

C10_Witness ==
    /\ update.kind = "text"
    /\ pc = "idle"
    /\ TierReplies("primary") # <<>>
    /\ TierReplies("fallback") # <<>>
    /\ TierReplies("error") # <<>>
    /\ escaped = NoError

====
